---- MODULE Spec2Model ----
(***************************************************************************)
(* The FreeIPA Terraform provider's connection bootstrap:                  *)
(*   internal/provider/provider.go   Provider.Configure, Provider.Client,  *)
(*                                   openKeytabReader,                     *)
(*                                   compactBase64Whitespace               *)
(*   freeipa/config.go               Config.Client, openKeytabReader,      *)
(*                                   compactBase64Whitespace               *)
(*                                                                         *)
(* Strings that the code only compares and passes on (host, username,      *)
(* paths, ...) are TLA+ strings.  The keytab base64 text, which the code   *)
(* walks byte by byte, is a sequence of byte values.                       *)
(***************************************************************************)
EXTENDS Integers, Sequences, FiniteSets, TLC

\* Bounds of the model
MaxLen == 4          \* longest whitespace-free base64 text drawn
MaxWs == 1           \* whitespace bytes inserted into a drawn text
MaxCalls == 2        \* entry-point calls in one behaviour

(***************************************************************************)
(* Bytes and base64 text                                                   *)
(***************************************************************************)
\* '\t' '\n' '\v' '\f' '\r' ' ' (the case list of compactBase64Whitespace)
WhitespaceBytes == {9, 10, 11, 12, 13, 32}

PadChar == 61        \* '=' (base64.StdPadding)

\* The bytes texts are drawn from: 'Q' (a base64 digit), '=' and '!'
BaseBytes == {81, PadChar, 33}

\* encoding/base64 decodeMap of StdEncoding: the digit's value, 255 if none
DecodeMap(c) ==
    IF c >= 65 /\ c <= 90 THEN c - 65
    ELSE IF c >= 97 /\ c <= 122 THEN c - 71
    ELSE IF c >= 48 /\ c <= 57 THEN c + 4
    ELSE IF c = 43 THEN 62
    ELSE IF c = 47 THEN 63
    ELSE 255

IsWhitespace(c) == c \in WhitespaceBytes

\* the inner loop of compactBase64Whitespace: every byte that is not whitespace
RECURSIVE StripWhitespace(_)
StripWhitespace(s) ==
    IF s = <<>> THEN <<>>
    ELSE IF IsWhitespace(Head(s)) THEN StripWhitespace(Tail(s))
    ELSE <<Head(s)>> \o StripWhitespace(Tail(s))

\* faulty variant: the text is decoded as given
compactBase64WhitespaceNone(s) == s

compactBase64Whitespace(s) ==
    IF \E i \in 1..Len(s) : IsWhitespace(s[i]) THEN StripWhitespace(s) ELSE s

\* index of the first byte at or after si that is not '\n' or '\r'
RECURSIVE SkipNewlines(_, _)
SkipNewlines(src, si) ==
    IF si <= Len(src) /\ (src[si] = 10 \/ src[si] = 13)
    THEN SkipNewlines(src, si + 1)
    ELSE si

\* the three bytes of a quantum of four digit values, cut to its first n
QuantumBytes(d, n) ==
    LET val == d[1] * 262144 + d[2] * 4096 + d[3] * 64 + d[4]
        b == <<val \div 65536, (val \div 256) % 256, val % 256>>
    IN  SubSeq(b, 1, n)

(***************************************************************************)
(* base64.StdEncoding.DecodeString (padded, not strict).  si is the        *)
(* 1-based index of the next byte, j the digits of the quantum read so     *)
(* far, d their values, out the bytes decoded.  The result is              *)
(* [err, pos, bytes]: pos is the CorruptInputError offset (0-based).       *)
(***************************************************************************)
RECURSIVE DecodeFrom(_, _, _, _, _)
DecodeFrom(src, si, j, d, out) ==
    IF j = 4 THEN DecodeFrom(src, si, 0, <<0, 0, 0, 0>>, out \o QuantumBytes(d, 3))
    ELSE IF si > Len(src) THEN
        IF j = 0 THEN [err |-> FALSE, pos |-> 0, bytes |-> out]
        ELSE [err |-> TRUE, pos |-> (si - 1) - j, bytes |-> <<>>]
    ELSE LET in == src[si] IN
        IF DecodeMap(in) # 255
        THEN DecodeFrom(src, si + 1, j + 1, [d EXCEPT ![j + 1] = DecodeMap(in)], out)
        ELSE IF in = 10 \/ in = 13 THEN DecodeFrom(src, si + 1, j, d, out)
        ELSE IF in # PadChar THEN [err |-> TRUE, pos |-> si - 1, bytes |-> <<>>]
        ELSE IF j < 2 THEN [err |-> TRUE, pos |-> si - 1, bytes |-> <<>>]
        ELSE LET s2 == IF j = 2 THEN SkipNewlines(src, si + 1) ELSE si + 1
                 padOk == j = 3 \/ (s2 <= Len(src) /\ src[s2] = PadChar)
                 s3 == SkipNewlines(src, IF j = 2 THEN s2 + 1 ELSE s2)
             IN  IF ~padOk
                 THEN [err |-> TRUE,
                       pos |-> IF s2 > Len(src) THEN Len(src) ELSE s2 - 2,
                       bytes |-> <<>>]
                 ELSE IF s3 <= Len(src)
                 THEN [err |-> TRUE, pos |-> s3 - 1, bytes |-> <<>>]
                 ELSE [err |-> FALSE, pos |-> 0,
                       bytes |-> out \o QuantumBytes(d, j - 1)]

DecodeString(s) == DecodeFrom(s, 1, 0, <<0, 0, 0, 0>>, <<>>)

(***************************************************************************)
(* Keytab materialization                                                  *)
(***************************************************************************)
NoErr == [kind |-> "", pos |-> 0]

\* os.Open: the empty name never opens; any other name opens when the
\* file system lets it (fileOk, the environment's choice)
OsOpen(path, fileOk) == path # "" /\ fileOk

\* the decode branch shared by both openKeytabReader functions
DecodeKeytab(b64) ==
    LET dec == DecodeString(compactBase64Whitespace(b64))
    IN  IF dec.err
        THEN [kind |-> "none", err |-> [kind |-> "failed to decode keytab_base64", pos |-> dec.pos],
              bytes |-> <<>>, opens |-> <<>>, decoded |-> TRUE]
        ELSE [kind |-> "mem", err |-> NoErr,
              bytes |-> dec.bytes, opens |-> <<>>, decoded |-> TRUE]

\* the os.Open branch shared by both openKeytabReader functions
OpenKeytabFile(path, fileOk) ==
    IF OsOpen(path, fileOk)
    THEN [kind |-> "file", err |-> NoErr,
          bytes |-> <<>>, opens |-> <<path>>, decoded |-> FALSE]
    ELSE [kind |-> "none", err |-> [kind |-> "open", pos |-> 0],
          bytes |-> <<>>, opens |-> <<path>>, decoded |-> FALSE]

\* faulty variant: the path is tried first, the base64 text only when it is empty
openKeytabReaderPathFirst(path, b64, fileOk) ==
    IF path # "" THEN OpenKeytabFile(path, fileOk)
    ELSE IF b64 # <<>> THEN DecodeKeytab(b64)
    ELSE [kind |-> "none", err |-> [kind |-> "keytab_path is empty", pos |-> 0],
          bytes |-> <<>>, opens |-> <<>>, decoded |-> FALSE]

\* internal/provider/provider.go openKeytabReader
openKeytabReader(path, b64, fileOk) ==
    IF b64 # <<>> THEN DecodeKeytab(b64)
    ELSE IF path = ""
    THEN [kind |-> "none", err |-> [kind |-> "keytab_path is empty", pos |-> 0],
          bytes |-> <<>>, opens |-> <<>>, decoded |-> FALSE]
    ELSE OpenKeytabFile(path, fileOk)

\* freeipa/config.go openKeytabReader
configOpenKeytabReader(path, b64, fileOk) ==
    IF b64 # <<>> THEN DecodeKeytab(b64)
    ELSE OpenKeytabFile(path, fileOk)

(***************************************************************************)
(* Configuration: the raw Model (each attribute null or set), the process  *)
(* environment, and the resolved values                                    *)
(***************************************************************************)
Null(v) == [null |-> TRUE, val |-> v]       \* types.String / types.Bool, IsNull()
Set(v) == [null |-> FALSE, val |-> v]       \* a value given in the configuration

DefaultKrb5Conf == "/etc/krb5.conf"
DefaultKeytab == "/etc/krb5.keytab"

\* os.Getenv: the variable's value, "" when it is not set
Getenv(env, name) == env[name]

\* faulty variant: the environment overrides an explicitly set value
PickStringEnvFirst(attr, fromEnv) == IF fromEnv # "" THEN fromEnv ELSE attr.val

\* provider.go 110-125, 138-146: the environment value, replaced by the
\* attribute when it is not null
PickString(attr, fromEnv) == IF ~attr.null THEN attr.val ELSE fromEnv

\* faulty variant: an empty environment value is taken as the path
PickPathNoDefault(attr, fromEnv, default) == IF ~attr.null THEN attr.val ELSE fromEnv

\* provider.go 148-162: a path falls back to its default when the environment
\* gives "", and is replaced by the attribute when it is not null
PickPath(attr, fromEnv, default) ==
    IF ~attr.null THEN attr.val
    ELSE IF fromEnv = "" THEN default ELSE fromEnv

\* provider.go 164-167: the base64 text (a byte sequence)
PickText(attr, fromEnv) == IF ~attr.null THEN attr.val ELSE fromEnv

\* provider.go 131-136
PickKerberosEnabled(attr, fromEnv) ==
    IF ~attr.null THEN attr.val ELSE fromEnv = "true"

\* provider.go 113, 127-129: no environment variable is read
PickInsecure(attr) == IF ~attr.null THEN attr.val ELSE FALSE

\* provider.go 110-167
Resolve(config, env) ==
    [host |-> PickString(config.Host, Getenv(env, "FREEIPA_HOST")),
     username |-> PickString(config.Username, Getenv(env, "FREEIPA_USERNAME")),
     password |-> PickString(config.Password, Getenv(env, "FREEIPA_PASSWORD")),
     insecureSkipVerify |-> PickInsecure(config.InsecureSkipVerify),
     kerberosEnabled |->
         PickKerberosEnabled(config.KerberosEnabled, Getenv(env, "FREEIPA_KERBEROS_ENABLED")),
     kerberosPrincipal |->
         PickString(config.KerberosPrincipal, Getenv(env, "FREEIPA_KERBEROS_PRINCIPAL")),
     kerberosRealm |->
         PickString(config.KerberosRealm, Getenv(env, "FREEIPA_KERBEROS_REALM")),
     krb5ConfPath |->
         PickPath(config.Krb5ConfPath, Getenv(env, "FREEIPA_KRB5_CONF"), DefaultKrb5Conf),
     keytabPath |->
         PickPath(config.KeytabPath, Getenv(env, "FREEIPA_KEYTAB"), DefaultKeytab),
     keytabBase64 |->
         PickText(config.KeytabBase64, Getenv(env, "FREEIPA_KEYTAB_BASE64"))]

(***************************************************************************)
(* Diagnostics                                                             *)
(***************************************************************************)
Diag(attr, summary) == [attr |-> attr, summary |-> summary]

\* diag.Diagnostics.AddAttributeError / AddError: appended unless already there
AddDiag(ds, d) ==
    IF \E i \in 1..Len(ds) : ds[i] = d THEN ds ELSE Append(ds, d)

DiagHost == Diag("host", "Missing FreeIPA host")
DiagKeytabInfo == Diag("keytab_path", "Missing keytab information")
DiagPrincipal == Diag("kerberos_principal", "Missing Kerberos principal")
DiagRealm == Diag("kerberos_realm", "Missing Kerberos realm")
DiagKeytabPath == Diag("keytab_path", "Missing keytab path")
DiagUsername == Diag("username", "Missing FreeIPA username")
DiagPassword == Diag("password", "Missing FreeIPA password")

\* one AddAttributeError under its if: the diagnostic when the rule is unmet
Unmet(cond, d) == IF cond THEN <<d>> ELSE <<>>

\* faulty variant: validation returns at the first violation
ValidateFailFast(c) ==
    IF c.host = "" THEN <<DiagHost>>
    ELSE IF c.kerberosEnabled THEN
        IF c.keytabBase64 = <<>> /\ c.keytabPath = "" THEN <<DiagKeytabInfo>>
        ELSE IF c.kerberosPrincipal = "" THEN <<DiagPrincipal>>
        ELSE IF c.kerberosRealm = "" THEN <<DiagRealm>>
        ELSE IF c.keytabPath = "" THEN <<DiagKeytabPath>>
        ELSE <<>>
    ELSE IF c.username = "" THEN <<DiagUsername>>
    ELSE IF c.password = "" THEN <<DiagPassword>>
    ELSE <<>>

\* faulty variant: the keytab path is not checked on its own
ValidateNoKeytabPath(c) ==
    Unmet(c.host = "", DiagHost)
    \o (IF c.kerberosEnabled
        THEN Unmet(c.keytabBase64 = <<>> /\ c.keytabPath = "", DiagKeytabInfo)
             \o Unmet(c.kerberosPrincipal = "", DiagPrincipal)
             \o Unmet(c.kerberosRealm = "", DiagRealm)
        ELSE Unmet(c.username = "", DiagUsername)
             \o Unmet(c.password = "", DiagPassword))

\* faulty variant: the keytab path is checked in both modes
ValidateKeytabAnyMode(c) ==
    Unmet(c.host = "", DiagHost)
    \o (IF c.kerberosEnabled
        THEN Unmet(c.keytabBase64 = <<>> /\ c.keytabPath = "", DiagKeytabInfo)
             \o Unmet(c.kerberosPrincipal = "", DiagPrincipal)
             \o Unmet(c.kerberosRealm = "", DiagRealm)
        ELSE Unmet(c.username = "", DiagUsername)
             \o Unmet(c.password = "", DiagPassword))
    \o Unmet(c.keytabPath = "", DiagKeytabPath)

\* faulty variant: the keytab path is required only without base64 text
ValidateKeytabPathUnlessBase64(c) ==
    Unmet(c.host = "", DiagHost)
    \o (IF c.kerberosEnabled
        THEN Unmet(c.keytabBase64 = <<>> /\ c.keytabPath = "", DiagKeytabInfo)
             \o Unmet(c.kerberosPrincipal = "", DiagPrincipal)
             \o Unmet(c.kerberosRealm = "", DiagRealm)
             \o Unmet(c.keytabBase64 = <<>> /\ c.keytabPath = "", DiagKeytabPath)
        ELSE Unmet(c.username = "", DiagUsername)
             \o Unmet(c.password = "", DiagPassword))

\* provider.go 169-209: every unmet rule adds its own diagnostic, in the
\* order of the code (the diagnostics differ from one another, so
\* AddAttributeError never merges two of them)
Validate(c) ==
    Unmet(c.host = "", DiagHost)
    \o (IF c.kerberosEnabled
        THEN Unmet(c.keytabBase64 = <<>> /\ c.keytabPath = "", DiagKeytabInfo)
             \o Unmet(c.kerberosPrincipal = "", DiagPrincipal)
             \o Unmet(c.kerberosRealm = "", DiagRealm)
             \o Unmet(c.keytabPath = "", DiagKeytabPath)
        ELSE Unmet(c.username = "", DiagUsername)
             \o Unmet(c.password = "", DiagPassword))

(***************************************************************************)
(* State                                                                   *)
(***************************************************************************)
VARIABLES
    pc,        \* position of the running call: idle, open_krb5, open_keytab,
               \* connect, in_connect, returned
    api,       \* the entry point running or just returned: "provider"
               \* (Provider.Configure), "config" (Config.Client), "" when idle
    cfg,       \* the resolved configuration of the call (Config for Config.Client)
    tspt,      \* the http.Transport built by the call
    diags,     \* resp.Diagnostics of the call
    ret,       \* what Config.Client returned: [client, err]
    client,    \* Provider.client, the field behind Provider.Client()
    streams,   \* the krb5.conf file and the keytab stream of the call
    defers,    \* the deferred Close calls of the call, in the order deferred
    io,        \* the files opened, decodes and connects of the call, in order
    connRet,   \* what the Directory Client's connect returned to the call
    events,    \* the log events the call emitted
    exit,      \* where the call returned: get, validate, krb5, keytab, connect, ok
    calls,     \* calls completed and discarded so far
    kt,        \* keytab materialization on drawn texts (SpecKeytab)
    rs,        \* resolution on drawn configurations (SpecResolve)
    pv         \* two Provider instances, the process environment and the
               \* descriptor table they share (SpecTwo)

vars == <<pc, api, cfg, tspt, diags, ret, client, streams, defers, io, connRet,
          events, exit, calls, kt, rs, pv>>

Nil == 0        \* the nil *freeipa.Client

NoStream == [kind |-> "none", opens |-> 0, closes |-> 0]
NoStreams == [krb5 |-> NoStream, keytab |-> NoStream]
NoTransport == [built |-> FALSE, proxy |-> "", insecureSkipVerify |-> FALSE]
NoReturn == [returned |-> FALSE, client |-> Nil, err |-> ""]
NoConnect == [returned |-> FALSE, client |-> Nil, err |-> FALSE]
EmptyCfg ==
    [host |-> "", username |-> "", password |-> "", insecureSkipVerify |-> FALSE,
     kerberosEnabled |-> FALSE, kerberosPrincipal |-> "", kerberosRealm |-> "",
     krb5ConfPath |-> "", keytabPath |-> "", keytabBase64 |-> <<>>]

KtIdle ==
    [base |-> <<>>, text |-> <<>>, done |-> FALSE, path |-> "", impl |-> "",
     outBase |-> <<>>, outText |-> <<>>, outLine |-> <<>>]
RsIdle ==
    [done |-> FALSE, config |-> <<>>, env |-> <<>>, out |-> <<>>, asExplicit |-> <<>>,
     tspt |-> NoTransport, diags |-> <<>>]

\* the Provider instances made by two calls of the factory
Insts == {1, 2}

\* a Provider fresh from the factory, and the locals of its Configure call
PIdle ==
    [pc |-> "idle", config |-> <<>>, cfg |-> EmptyCfg, diags |-> <<>>,
     tspt |-> NoTransport, client |-> Nil,
     streams |-> [krb5 |-> [kind |-> "none", opens |-> 0, closes |-> 0, fd |-> 0],
                  keytab |-> [kind |-> "none", opens |-> 0, closes |-> 0, fd |-> 0]],
     defers |-> <<>>, io |-> <<>>, connRet |-> NoConnect, events |-> <<>>,
     exit |-> "", in |-> [krb5 |-> FALSE, keytab |-> FALSE, connect |-> FALSE]]

PvIdle == [inst |-> [i \in Insts |-> PIdle], fds |-> {}, env |-> <<>>]

\* diag.Diagnostics.HasError
HasError(ds) == ds # <<>>

IsOpen(s) == s.opens > s.closes

Range(q) == {q[i] : i \in 1..Len(q)}

\* faulty variant: only the stream deferred last is closed
RunDefersLastOnly(ss, ds) ==
    [n \in {"krb5", "keytab"} |->
        IF ds # <<>> /\ ds[Len(ds)] = n
        THEN [ss[n] EXCEPT !.closes = @ + 1] ELSE ss[n]]

\* the deferred Close calls run when the function returns
RunDefers(ss, ds) ==
    [n \in {"krb5", "keytab"} |->
        IF n \in Range(ds) THEN [ss[n] EXCEPT !.closes = @ + 1] ELSE ss[n]]

\* http.Transport{Proxy: http.ProxyFromEnvironment, TLSClientConfig: ...}
ProviderTransport(c) ==
    [built |-> TRUE, proxy |-> "ProxyFromEnvironment",
     insecureSkipVerify |-> c.insecureSkipVerify]

\* http.Transport{TLSClientConfig: ...} of Config.Client
ConfigTransport(c) ==
    [built |-> TRUE, proxy |-> "", insecureSkipVerify |-> c.insecureSkipVerify]

IoOp(op, what, arg) == [op |-> op, what |-> what, arg |-> arg]

\* what an openKeytabReader call did: a decode, the files it tried to open
KeytabIo(r) ==
    (IF r.decoded THEN <<IoOp("decode", "keytab", "")>> ELSE <<>>)
    \o [i \in 1..Len(r.opens) |-> IoOp("open", "keytab", r.opens[i])]

\* provider.go 259-263
ProviderLogEvent(c) ==
    [msg |-> "Successfully connected to FreeIPA",
     fields |-> [host |-> c.host, username |-> c.username,
                 kerberos_enabled |-> c.kerberosEnabled]]

\* config.go 76
ConfigLogEvent(c) ==
    [msg |-> "[INFO] FreeIPA Client configured for host", fields |-> [host |-> c.host]]

\* what freeipa.Connect / ConnectWithKerberos return: a new client and no
\* error, or no client and an error
ConnectResult(ok, handle) ==
    IF ok THEN [returned |-> TRUE, client |-> handle, err |-> FALSE]
    ELSE [returned |-> TRUE, client |-> Nil, err |-> TRUE]

\* provider.go 274-276
Client == client

(***************************************************************************)
(* Provider.Configure (internal/provider/provider.go 101-264)              *)
(***************************************************************************)
\* faulty variant: the connection phase starts whatever validation found
ProceedAlways(ds) == TRUE

\* provider.go 211-213: Configure goes on only without error diagnostics
Proceed(ds) == ~HasError(ds)

\* provider.go 104-108: the configuration cannot be read into the Model
ConfigureGetError ==
    /\ pc = "idle" /\ calls < MaxCalls
    /\ pc' = "returned" /\ api' = "provider" /\ exit' = "get"
    /\ diags' = <<Diag("", "Value Conversion Error")>>
    /\ UNCHANGED <<cfg, tspt, ret, client, streams, defers, io, connRet, events,
                   calls, kt, rs, pv>>

\* faulty variant: the presence of keytab text selects the kerberos steps
ConfigureModeByKeytab(config, env) ==
    /\ pc = "idle" /\ calls < MaxCalls
    /\ LET c == Resolve(config, env)
           d == Validate(c)
       IN  /\ api' = "provider" /\ cfg' = c /\ diags' = d
           /\ IF Proceed(d)
              THEN /\ tspt' = ProviderTransport(c)
                   /\ pc' = IF c.kerberosEnabled \/ c.keytabBase64 # <<>>
                            THEN "open_krb5" ELSE "connect"
                   /\ exit' = exit
              ELSE /\ tspt' = tspt
                   /\ pc' = "returned" /\ exit' = "validate"
    /\ UNCHANGED <<ret, client, streams, defers, io, connRet, events, calls, kt, rs, pv>>

\* provider.go 110-220: resolve, validate, build the transport
Configure(config, env) ==
    /\ pc = "idle" /\ calls < MaxCalls
    /\ LET c == Resolve(config, env)
           d == Validate(c)
       IN  /\ api' = "provider" /\ cfg' = c /\ diags' = d
           /\ IF Proceed(d)
              THEN /\ tspt' = ProviderTransport(c)
                   /\ pc' = IF c.kerberosEnabled THEN "open_krb5" ELSE "connect"
                   /\ exit' = exit
              ELSE /\ tspt' = tspt
                   /\ pc' = "returned" /\ exit' = "validate"
    /\ UNCHANGED <<ret, client, streams, defers, io, connRet, events, calls, kt, rs, pv>>

\* faulty variant: after a failed krb5.conf open the call goes on to the keytab
ConfigureOpenKrb5GoesOn ==
    /\ pc = "open_krb5" /\ api = "provider"
    /\ io' = Append(io, IoOp("open", "krb5", cfg.krb5ConfPath))
    /\ \E fileOk \in BOOLEAN :
        IF OsOpen(cfg.krb5ConfPath, fileOk)
        THEN /\ streams' = [streams EXCEPT !.krb5 = [kind |-> "file", opens |-> 1, closes |-> 0]]
             /\ defers' = Append(defers, "krb5")
             /\ UNCHANGED diags
        ELSE /\ diags' = AddDiag(diags, Diag("", "Failed to open krb5.conf"))
             /\ UNCHANGED <<streams, defers>>
    /\ pc' = "open_keytab"
    /\ UNCHANGED <<api, cfg, tspt, ret, client, connRet, events, exit, calls, kt, rs, pv>>

\* provider.go 225-230
ConfigureOpenKrb5 ==
    /\ pc = "open_krb5" /\ api = "provider"
    /\ io' = Append(io, IoOp("open", "krb5", cfg.krb5ConfPath))
    /\ \E fileOk \in BOOLEAN :
        IF OsOpen(cfg.krb5ConfPath, fileOk)
        THEN /\ streams' = [streams EXCEPT !.krb5 = [kind |-> "file", opens |-> 1, closes |-> 0]]
             /\ defers' = Append(defers, "krb5")
             /\ pc' = "open_keytab"
             /\ UNCHANGED <<diags, exit>>
        ELSE /\ diags' = AddDiag(diags, Diag("", "Failed to open krb5.conf"))
             /\ streams' = RunDefers(streams, defers) /\ defers' = <<>>
             /\ pc' = "returned" /\ exit' = "krb5"
    /\ UNCHANGED <<api, cfg, tspt, ret, client, connRet, events, calls, kt, rs, pv>>

\* provider.go 232-237
ConfigureOpenKeytab ==
    /\ pc = "open_keytab" /\ api = "provider"
    /\ \E fileOk \in BOOLEAN :
        LET r == openKeytabReader(cfg.keytabPath, cfg.keytabBase64, fileOk) IN
        /\ io' = io \o KeytabIo(r)
        /\ IF r.err = NoErr
           THEN /\ streams' = [streams EXCEPT !.keytab = [kind |-> r.kind, opens |-> 1, closes |-> 0]]
                /\ defers' = Append(defers, "keytab")
                /\ pc' = "connect"
                /\ UNCHANGED <<diags, exit>>
           ELSE /\ diags' = AddDiag(diags, Diag("", "Failed to load keytab"))
                /\ streams' = RunDefers(streams, defers) /\ defers' = <<>>
                /\ pc' = "returned" /\ exit' = "keytab"
    /\ UNCHANGED <<api, cfg, tspt, ret, client, connRet, events, calls, kt, rs, pv>>

\* provider.go 246, 252: the call into the Directory Client
ConfigureConnect ==
    /\ pc = "connect" /\ api = "provider"
    /\ io' = Append(io, IoOp("connect",
                             IF cfg.kerberosEnabled THEN "kerberos" ELSE "password",
                             cfg.host))
    /\ pc' = "in_connect"
    /\ UNCHANGED <<api, cfg, tspt, diags, ret, client, streams, defers, connRet,
                   events, exit, calls, kt, rs, pv>>

\* provider.go 246-264: the connect returns; p.client takes what it returned
ConfigureConnected ==
    /\ pc = "in_connect" /\ api = "provider"
    /\ \E ok \in BOOLEAN :
        LET r == ConnectResult(ok, calls + 1) IN
        /\ connRet' = r
        /\ client' = r.client
        /\ IF r.err
           THEN /\ diags' = AddDiag(diags, Diag("", "Failed to connect to FreeIPA"))
                /\ exit' = "connect"
                /\ events' = events
           ELSE /\ events' = Append(events, ProviderLogEvent(cfg))
                /\ exit' = "ok"
                /\ diags' = diags
    /\ streams' = RunDefers(streams, defers) /\ defers' = <<>>
    /\ pc' = "returned"
    /\ UNCHANGED <<api, cfg, tspt, ret, io, calls, kt, rs, pv>>

(***************************************************************************)
(* Config.Client (freeipa/config.go 32-79)                                 *)
(***************************************************************************)
\* config.go 33-47
ClientCall(c) ==
    /\ pc = "idle" /\ calls < MaxCalls
    /\ api' = "config" /\ cfg' = c /\ tspt' = ConfigTransport(c)
    /\ IF c.kerberosEnabled /\ c.keytabPath = "" /\ c.keytabBase64 = <<>>
       THEN /\ ret' = [returned |-> TRUE, client |-> Nil,
                       err |-> "neither keytab_path nor keytab_base64 is set"]
            /\ pc' = "returned" /\ exit' = "validate"
       ELSE /\ pc' = IF c.kerberosEnabled THEN "open_krb5" ELSE "connect"
            /\ UNCHANGED <<ret, exit>>
    /\ UNCHANGED <<diags, client, streams, defers, io, connRet, events, calls, kt, rs, pv>>

\* config.go 49-53
ClientOpenKrb5 ==
    /\ pc = "open_krb5" /\ api = "config"
    /\ io' = Append(io, IoOp("open", "krb5", cfg.krb5ConfPath))
    /\ \E fileOk \in BOOLEAN :
        IF OsOpen(cfg.krb5ConfPath, fileOk)
        THEN /\ streams' = [streams EXCEPT !.krb5 = [kind |-> "file", opens |-> 1, closes |-> 0]]
             /\ defers' = Append(defers, "krb5")
             /\ pc' = "open_keytab"
             /\ UNCHANGED <<ret, exit>>
        ELSE /\ ret' = [returned |-> TRUE, client |-> Nil, err |-> "open krb5.conf"]
             /\ streams' = RunDefers(streams, defers) /\ defers' = <<>>
             /\ pc' = "returned" /\ exit' = "krb5"
    /\ UNCHANGED <<api, cfg, tspt, diags, client, connRet, events, calls, kt, rs, pv>>

\* config.go 55-59
ClientOpenKeytab ==
    /\ pc = "open_keytab" /\ api = "config"
    /\ \E fileOk \in BOOLEAN :
        LET r == configOpenKeytabReader(cfg.keytabPath, cfg.keytabBase64, fileOk) IN
        /\ io' = io \o KeytabIo(r)
        /\ IF r.err = NoErr
           THEN /\ streams' = [streams EXCEPT !.keytab = [kind |-> r.kind, opens |-> 1, closes |-> 0]]
                /\ defers' = Append(defers, "keytab")
                /\ pc' = "connect"
                /\ UNCHANGED <<ret, exit>>
           ELSE /\ ret' = [returned |-> TRUE, client |-> Nil, err |-> r.err.kind]
                /\ streams' = RunDefers(streams, defers) /\ defers' = <<>>
                /\ pc' = "returned" /\ exit' = "keytab"
    /\ UNCHANGED <<api, cfg, tspt, diags, client, connRet, events, calls, kt, rs, pv>>

\* config.go 68, 70: the call into the Directory Client
ClientConnect ==
    /\ pc = "connect" /\ api = "config"
    /\ io' = Append(io, IoOp("connect",
                             IF cfg.kerberosEnabled THEN "kerberos" ELSE "password",
                             cfg.host))
    /\ pc' = "in_connect"
    /\ UNCHANGED <<api, cfg, tspt, diags, ret, client, streams, defers, connRet,
                   events, exit, calls, kt, rs, pv>>

\* config.go 39-42, 49, 68, 70, 72: the err tested after the branches is the
\* function's own; in the kerberos branch the connect's error is assigned to
\* the err declared by := inside the branch (line 49), so the function's own
\* stays nil there
ClientOuterErr(c, r) == IF c.kerberosEnabled THEN FALSE ELSE r.err

\* config.go 68-79: the connect returns
ClientConnected ==
    /\ pc = "in_connect" /\ api = "config"
    /\ \E ok \in BOOLEAN :
        LET r == ConnectResult(ok, calls + 1) IN
        /\ connRet' = r
        /\ IF ClientOuterErr(cfg, r)
           THEN /\ ret' = [returned |-> TRUE, client |-> Nil, err |-> "connect"]
                /\ exit' = "connect"
                /\ events' = events
           ELSE /\ events' = Append(events, ConfigLogEvent(cfg))
                /\ ret' = [returned |-> TRUE, client |-> r.client, err |-> ""]
                /\ exit' = "ok"
    /\ streams' = RunDefers(streams, defers) /\ defers' = <<>>
    /\ pc' = "returned"
    /\ UNCHANGED <<api, cfg, tspt, diags, client, io, calls, kt, rs, pv>>

\* the caller has read the response; the next call starts afresh.  Only
\* Provider.client outlives a call.
Discard ==
    /\ pc = "returned"
    /\ pc' = "idle" /\ api' = "" /\ cfg' = EmptyCfg /\ tspt' = NoTransport
    /\ diags' = <<>> /\ ret' = NoReturn /\ streams' = NoStreams /\ defers' = <<>>
    /\ io' = <<>> /\ connRet' = NoConnect /\ events' = <<>> /\ exit' = ""
    /\ calls' = calls + 1
    /\ UNCHANGED <<client, kt, rs, pv>>

(***************************************************************************)
(* Inputs of the calls                                                     *)
(***************************************************************************)
ValidB64 == <<81, 81, 81, 81>>        \* "QQQQ"
InvalidB64 == <<33, 33, 33, 33>>      \* "!!!!"
CustomKeytab == "/keytabs/terraform.keytab"

\* the provider blocks Configure is called with
RawConfigs ==
    [Host : {Null(""), Set("ipa1")},
     Username : {Null(""), Set("admin")},
     Password : {Null(""), Set("pw1")},
     InsecureSkipVerify : {Null(FALSE), Set(TRUE)},
     KerberosEnabled : {Null(FALSE), Set(TRUE), Set(FALSE)},
     KerberosPrincipal : {Null(""), Set("terraform")},
     KerberosRealm : {Null(""), Set("EXAMPLE.COM")},
     Krb5ConfPath : {Null(""), Set("")},
     KeytabPath : {Null(""), Set(""), Set(CustomKeytab)},
     KeytabBase64 : {Null(<<>>), Set(ValidB64), Set(InvalidB64)}]

EnvNames ==
    {"FREEIPA_HOST", "FREEIPA_USERNAME", "FREEIPA_PASSWORD", "FREEIPA_KERBEROS_ENABLED",
     "FREEIPA_KERBEROS_PRINCIPAL", "FREEIPA_KERBEROS_REALM", "FREEIPA_KRB5_CONF",
     "FREEIPA_KEYTAB", "FREEIPA_KEYTAB_BASE64", "FREEIPA_INSECURE"}

EmptyEnv == [n \in EnvNames |-> IF n = "FREEIPA_KEYTAB_BASE64" THEN <<>> ELSE ""]

PasswordEnv ==
    [EmptyEnv EXCEPT !["FREEIPA_HOST"] = "ipa1", !["FREEIPA_USERNAME"] = "admin",
                     !["FREEIPA_PASSWORD"] = "pw1"]

KerberosEnv ==
    [EmptyEnv EXCEPT !["FREEIPA_HOST"] = "ipa1", !["FREEIPA_KERBEROS_ENABLED"] = "true",
                     !["FREEIPA_KERBEROS_PRINCIPAL"] = "terraform",
                     !["FREEIPA_KERBEROS_REALM"] = "EXAMPLE.COM",
                     !["FREEIPA_KEYTAB"] = CustomKeytab,
                     !["FREEIPA_KEYTAB_BASE64"] = ValidB64]

\* the process environments Configure runs in
Envs == {EmptyEnv, PasswordEnv, KerberosEnv}

\* the Config values Config.Client is called on
ConfigStructs ==
    [host : {"", "ipa1"}, username : {"", "admin"}, password : {"", "pw1"},
     insecureSkipVerify : BOOLEAN, kerberosEnabled : BOOLEAN,
     kerberosPrincipal : {"", "terraform"}, kerberosRealm : {"", "EXAMPLE.COM"},
     krb5ConfPath : {"", DefaultKrb5Conf},
     keytabPath : {"", DefaultKeytab, CustomKeytab},
     keytabBase64 : {<<>>, ValidB64, InvalidB64}]

(***************************************************************************)
(* The provider and the Config client, called again and again              *)
(***************************************************************************)
\* Terraform calls Configure with a provider block, in some environment
ConfigureCalled ==
    pc = "idle" /\ \E config \in RawConfigs, env \in Envs : Configure(config, env)

\* a caller calls Client on some Config
ClientCalled ==
    pc = "idle" /\ \E c \in ConfigStructs : ClientCall(c)

Init ==
    /\ pc = "idle" /\ api = "" /\ cfg = EmptyCfg /\ tspt = NoTransport
    /\ diags = <<>> /\ ret = NoReturn /\ client = Nil
    /\ streams = NoStreams /\ defers = <<>> /\ io = <<>> /\ connRet = NoConnect
    /\ events = <<>> /\ exit = "" /\ calls = 0
    /\ kt = KtIdle /\ rs = RsIdle /\ pv = PvIdle

Next ==
    \/ ConfigureGetError
    \/ ConfigureCalled
    \/ ConfigureOpenKrb5
    \/ ConfigureOpenKeytab
    \/ ConfigureConnect
    \/ ConfigureConnected
    \/ ClientCalled
    \/ ClientOpenKrb5
    \/ ClientOpenKeytab
    \/ ClientConnect
    \/ ClientConnected
    \/ Discard

Spec == Init /\ [][Next]_vars

(***************************************************************************)
(* Keytab materialization on its own: a whitespace-free text is drawn,     *)
(* whitespace is inserted into a copy of it, and both openKeytabReader     *)
(* functions are applied to the drawn text, to the copy, and to the drawn  *)
(* text followed by a newline                                              *)
(***************************************************************************)
Texts == UNION {[1..n -> BaseBytes] : n \in 0..MaxLen}

KtPaths == {"", DefaultKeytab}

Insert(s, i, b) == SubSeq(s, 1, i) \o <<b>> \o SubSeq(s, i + 1, Len(s))

WhitespaceIn(s) == Cardinality({i \in 1..Len(s) : IsWhitespace(s[i])})

KtInit ==
    /\ pc = "idle" /\ api = "" /\ cfg = EmptyCfg /\ tspt = NoTransport
    /\ diags = <<>> /\ ret = NoReturn /\ client = Nil
    /\ streams = NoStreams /\ defers = <<>> /\ io = <<>> /\ connRet = NoConnect
    /\ events = <<>> /\ exit = "" /\ calls = 0
    /\ rs = RsIdle /\ pv = PvIdle
    /\ \E b \in Texts : kt = [KtIdle EXCEPT !.base = b, !.text = b]

KtUnchanged ==
    UNCHANGED <<pc, api, cfg, tspt, diags, ret, client, streams, defers, io,
                connRet, events, exit, calls, rs, pv>>

\* a whitespace byte is inserted somewhere into the copy
KtInsertWhitespace ==
    /\ ~kt.done /\ WhitespaceIn(kt.text) < MaxWs
    /\ \E i \in 0..Len(kt.text), w \in WhitespaceBytes :
        kt' = [kt EXCEPT !.text = Insert(kt.text, i, w)]
    /\ KtUnchanged

\* provider.go openKeytabReader applied to the three texts
KtProvider ==
    /\ ~kt.done
    /\ \E path \in KtPaths, fileOk \in BOOLEAN :
        kt' = [kt EXCEPT !.done = TRUE, !.path = path, !.impl = "provider",
                         !.outBase = openKeytabReader(path, kt.base, fileOk),
                         !.outText = openKeytabReader(path, kt.text, fileOk),
                         !.outLine = openKeytabReader(path, kt.base \o <<10>>, fileOk)]
    /\ KtUnchanged

\* config.go openKeytabReader applied to the three texts
KtConfig ==
    /\ ~kt.done
    /\ \E path \in KtPaths, fileOk \in BOOLEAN :
        kt' = [kt EXCEPT !.done = TRUE, !.path = path, !.impl = "config",
                         !.outBase = configOpenKeytabReader(path, kt.base, fileOk),
                         !.outText = configOpenKeytabReader(path, kt.text, fileOk),
                         !.outLine = configOpenKeytabReader(path, kt.base \o <<10>>, fileOk)]
    /\ KtUnchanged

KtNext == KtInsertWhitespace \/ KtProvider \/ KtConfig

SpecKeytab == KtInit /\ [][KtNext]_vars

(***************************************************************************)
(* Resolution on its own: a provider block and an environment are drawn    *)
(* and resolved; the environment is also resolved as the provider block    *)
(* that sets the same values explicitly                                    *)
(***************************************************************************)
AllNull ==
    [Host |-> Null(""), Username |-> Null(""), Password |-> Null(""),
     InsecureSkipVerify |-> Null(FALSE), KerberosEnabled |-> Null(FALSE),
     KerberosPrincipal |-> Null(""), KerberosRealm |-> Null(""),
     Krb5ConfPath |-> Null(""), KeytabPath |-> Null(""), KeytabBase64 |-> Null(<<>>)]

ExplicitValues ==
    [Host |-> Set("ipa1"), Username |-> Set("admin"), Password |-> Set("pw1"),
     InsecureSkipVerify |-> Set(TRUE), KerberosEnabled |-> Set(FALSE),
     KerberosPrincipal |-> Set("terraform"), KerberosRealm |-> Set("EXAMPLE.COM"),
     Krb5ConfPath |-> Set("/custom/krb5.conf"), KeytabPath |-> Set(CustomKeytab),
     KeytabBase64 |-> Set(ValidB64)]

ExplicitEmpty ==
    [Host |-> Set(""), Username |-> Set(""), Password |-> Set(""),
     InsecureSkipVerify |-> Set(FALSE), KerberosEnabled |-> Set(TRUE),
     KerberosPrincipal |-> Set(""), KerberosRealm |-> Set(""),
     Krb5ConfPath |-> Set(""), KeytabPath |-> Set(""), KeytabBase64 |-> Set(<<>>)]

Attrs == DOMAIN AllNull

\* every choice of the attributes that are set, all to values or all to empty
RsConfigs ==
    {[a \in Attrs |-> IF a \in m THEN style[a] ELSE AllNull[a]] :
        m \in SUBSET Attrs, style \in {ExplicitValues, ExplicitEmpty}}

FullEnv ==
    [n \in EnvNames |->
        CASE n = "FREEIPA_HOST" -> "ipa2"
          [] n = "FREEIPA_USERNAME" -> "envuser"
          [] n = "FREEIPA_PASSWORD" -> "pw2"
          [] n = "FREEIPA_KERBEROS_ENABLED" -> "true"
          [] n = "FREEIPA_KERBEROS_PRINCIPAL" -> "envsvc"
          [] n = "FREEIPA_KERBEROS_REALM" -> "ENV.EXAMPLE.COM"
          [] n = "FREEIPA_KRB5_CONF" -> "/env/krb5.conf"
          [] n = "FREEIPA_KEYTAB" -> "/env/krb5.keytab"
          [] n = "FREEIPA_INSECURE" -> "true"
          [] OTHER -> <<81, 81, 61, 61>>]

\* nothing set, everything set (the kerberos flag as "true", "TRUE" and
\* "false"), and each variable set alone
RsEnvs ==
    {EmptyEnv, FullEnv,
     [FullEnv EXCEPT !["FREEIPA_KERBEROS_ENABLED"] = "TRUE"],
     [FullEnv EXCEPT !["FREEIPA_KERBEROS_ENABLED"] = "false"]}
    \cup {[n \in EnvNames |-> IF n = v THEN FullEnv[n] ELSE EmptyEnv[n]] : v \in EnvNames}

\* the provider block that sets what env sets, and nothing else
ExplicitOf(env) ==
    LET S(name) == IF env[name] = "" THEN Null("") ELSE Set(env[name]) IN
    [Host |-> S("FREEIPA_HOST"), Username |-> S("FREEIPA_USERNAME"),
     Password |-> S("FREEIPA_PASSWORD"), InsecureSkipVerify |-> Null(FALSE),
     KerberosEnabled |->
         IF env["FREEIPA_KERBEROS_ENABLED"] = "" THEN Null(FALSE)
         ELSE Set(env["FREEIPA_KERBEROS_ENABLED"] = "true"),
     KerberosPrincipal |-> S("FREEIPA_KERBEROS_PRINCIPAL"),
     KerberosRealm |-> S("FREEIPA_KERBEROS_REALM"),
     Krb5ConfPath |-> S("FREEIPA_KRB5_CONF"), KeytabPath |-> S("FREEIPA_KEYTAB"),
     KeytabBase64 |->
         IF env["FREEIPA_KEYTAB_BASE64"] = <<>> THEN Null(<<>>)
         ELSE Set(env["FREEIPA_KEYTAB_BASE64"])]

RsInit ==
    /\ pc = "idle" /\ api = "" /\ cfg = EmptyCfg /\ tspt = NoTransport
    /\ diags = <<>> /\ ret = NoReturn /\ client = Nil
    /\ streams = NoStreams /\ defers = <<>> /\ io = <<>> /\ connRet = NoConnect
    /\ events = <<>> /\ exit = "" /\ calls = 0
    /\ kt = KtIdle /\ pv = PvIdle
    /\ \E config \in RsConfigs, env \in RsEnvs :
        rs = [RsIdle EXCEPT !.config = config, !.env = env]

\* provider.go 110-220 applied to the drawn block and environment: the
\* resolved values, the diagnostics of their validation, and the transport
\* built from them once validation passed
RsResolve ==
    /\ ~rs.done
    /\ LET c == Resolve(rs.config, rs.env) IN
        rs' = [rs EXCEPT !.done = TRUE,
                         !.out = c,
                         !.asExplicit = Resolve(ExplicitOf(rs.env), EmptyEnv),
                         !.diags = Validate(c),
                         !.tspt = IF Proceed(Validate(c)) THEN ProviderTransport(c)
                                  ELSE NoTransport]
    /\ UNCHANGED <<pc, api, cfg, tspt, diags, ret, client, streams, defers, io,
                   connRet, events, exit, calls, kt, pv>>

RsNext == RsResolve

SpecResolve == RsInit /\ [][RsNext]_vars

(***************************************************************************)
(* Two Provider instances from two calls of the factory, each configured   *)
(* once, their Configure calls running at the same time.  A Configure call *)
(* is the same steps as above, on the instance's own record; the process   *)
(* environment and the descriptor table of the process are the only things *)
(* both calls touch.                                                       *)
(***************************************************************************)
\* faulty variant: the client lives in one place for every instance
StoreClientShared(f, i, h) == [j \in DOMAIN f |-> [f[j] EXCEPT !.client = h]]

\* provider.go 246, 252: p.client is a field of the Provider the call runs on
StoreClient(f, i, h) == [f EXCEPT ![i].client = h]

\* os.Open: the lowest descriptor number not in use (0, 1, 2 are taken)
FreshFd(fds) ==
    CHOOSE n \in 3..(3 + Cardinality(fds)) :
        /\ \A e \in fds : e.fd # n
        /\ \A m \in 3..(n - 1) : \E e \in fds : e.fd = m

\* the descriptor table after a step from p to q of instance i: what the
\* step opened is entered, what its Close calls named is removed
FdsAfter(fds, i, p, q) ==
    LET names == {"krb5", "keytab"}
        opened == {[fd |-> q.streams[n].fd, owner |-> i] :
                      n \in {n \in names : q.streams[n].kind = "file"
                                           /\ p.streams[n].kind # "file"}}
        closed == {q.streams[n].fd :
                      n \in {n \in names : q.streams[n].kind = "file"
                                           /\ q.streams[n].closes > p.streams[n].closes}}
    IN  {e \in fds \cup opened : e.fd \notin closed}

\* provider.go 110-220
PConfigure(p, config, env) ==
    LET c == Resolve(config, env)
        d == Validate(c)
    IN  IF Proceed(d)
        THEN [p EXCEPT !.config = config, !.cfg = c, !.diags = d,
                       !.tspt = ProviderTransport(c),
                       !.pc = IF c.kerberosEnabled THEN "open_krb5" ELSE "connect"]
        ELSE [p EXCEPT !.config = config, !.cfg = c, !.diags = d,
                       !.pc = "returned", !.exit = "validate"]

\* provider.go 225-230
POpenKrb5(p, fileOk, fd) ==
    LET q == [p EXCEPT !.io = Append(@, IoOp("open", "krb5", p.cfg.krb5ConfPath)),
                       !.in.krb5 = fileOk]
    IN  IF OsOpen(p.cfg.krb5ConfPath, fileOk)
        THEN [q EXCEPT !.streams.krb5 = [kind |-> "file", opens |-> 1, closes |-> 0, fd |-> fd],
                       !.defers = Append(@, "krb5"),
                       !.pc = "open_keytab"]
        ELSE [q EXCEPT !.diags = AddDiag(@, Diag("", "Failed to open krb5.conf")),
                       !.streams = RunDefers(@, p.defers), !.defers = <<>>,
                       !.pc = "returned", !.exit = "krb5"]

\* provider.go 232-237
POpenKeytab(p, fileOk, fd) ==
    LET r == openKeytabReader(p.cfg.keytabPath, p.cfg.keytabBase64, fileOk)
        q == [p EXCEPT !.io = @ \o KeytabIo(r), !.in.keytab = fileOk]
    IN  IF r.err = NoErr
        THEN [q EXCEPT !.streams.keytab =
                           [kind |-> r.kind, opens |-> 1, closes |-> 0,
                            fd |-> IF r.kind = "file" THEN fd ELSE 0],
                       !.defers = Append(@, "keytab"),
                       !.pc = "connect"]
        ELSE [q EXCEPT !.diags = AddDiag(@, Diag("", "Failed to load keytab")),
                       !.streams = RunDefers(@, p.defers), !.defers = <<>>,
                       !.pc = "returned", !.exit = "keytab"]

\* provider.go 246, 252: the call into the Directory Client
PConnect(p) ==
    [p EXCEPT !.io = Append(@, IoOp("connect",
                                    IF p.cfg.kerberosEnabled THEN "kerberos" ELSE "password",
                                    p.cfg.host)),
              !.pc = "in_connect"]

\* provider.go 246-264, without the assignment to p.client
PConnected(p, ok, handle) ==
    LET r == ConnectResult(ok, handle)
        q == [p EXCEPT !.connRet = r, !.in.connect = ok,
                       !.streams = RunDefers(@, p.defers), !.defers = <<>>,
                       !.pc = "returned"]
    IN  IF r.err
        THEN [q EXCEPT !.diags = AddDiag(@, Diag("", "Failed to connect to FreeIPA")),
                       !.exit = "connect"]
        ELSE [q EXCEPT !.events = Append(@, ProviderLogEvent(p.cfg)), !.exit = "ok"]

\* the provider blocks of the two instances
PasswordBlock ==
    [AllNull EXCEPT !.Host = Set("ipa1"), !.Username = Set("admin"),
                    !.Password = Set("pw1")]
KeytabFileBlock ==
    [AllNull EXCEPT !.Host = Set("ipa1"), !.KerberosEnabled = Set(TRUE),
                    !.KerberosPrincipal = Set("terraform"),
                    !.KerberosRealm = Set("EXAMPLE.COM"),
                    !.KeytabPath = Set(CustomKeytab)]
KeytabBase64Block == [KeytabFileBlock EXCEPT !.KeytabBase64 = Set(ValidB64)]
BadBase64Block == [KeytabFileBlock EXCEPT !.KeytabBase64 = Set(InvalidB64)]
TwoConfigs ==
    {AllNull, PasswordBlock, KeytabFileBlock, KeytabBase64Block, BadBase64Block}

\* the environment of the process both instances live in
TwoEnvs == {EmptyEnv, KerberosEnv}

TwoInit ==
    /\ pc = "idle" /\ api = "" /\ cfg = EmptyCfg /\ tspt = NoTransport
    /\ diags = <<>> /\ ret = NoReturn /\ client = Nil
    /\ streams = NoStreams /\ defers = <<>> /\ io = <<>> /\ connRet = NoConnect
    /\ events = <<>> /\ exit = "" /\ calls = 0
    /\ kt = KtIdle /\ rs = RsIdle
    /\ \E env \in TwoEnvs : pv = [PvIdle EXCEPT !.env = env]

TwoUnchanged ==
    UNCHANGED <<pc, api, cfg, tspt, diags, ret, client, streams, defers, io,
                connRet, events, exit, calls, kt, rs>>

\* a step of instance i's Configure call from its record to q
TwoStep(i, q) ==
    /\ pv' = [pv EXCEPT !.inst[i] = q,
                        !.fds = FdsAfter(pv.fds, i, pv.inst[i], q)]
    /\ TwoUnchanged

TwoConfigure ==
    \E i \in Insts :
        /\ pv.inst[i].pc = "idle"
        /\ \E config \in TwoConfigs : TwoStep(i, PConfigure(pv.inst[i], config, pv.env))

TwoOpenKrb5 ==
    \E i \in Insts :
        /\ pv.inst[i].pc = "open_krb5"
        /\ \E fileOk \in BOOLEAN :
            TwoStep(i, POpenKrb5(pv.inst[i], fileOk, FreshFd(pv.fds)))

TwoOpenKeytab ==
    \E i \in Insts :
        /\ pv.inst[i].pc = "open_keytab"
        /\ \E fileOk \in BOOLEAN :
            TwoStep(i, POpenKeytab(pv.inst[i], fileOk, FreshFd(pv.fds)))

TwoConnect ==
    \E i \in Insts :
        /\ pv.inst[i].pc = "connect"
        /\ TwoStep(i, PConnect(pv.inst[i]))

\* the connect of instance i returns; what it returned goes to p.client
TwoConnected ==
    \E i \in Insts :
        /\ pv.inst[i].pc = "in_connect"
        /\ \E ok \in BOOLEAN :
            LET q == PConnected(pv.inst[i], ok, i) IN
            /\ pv' = [pv EXCEPT
                         !.inst = StoreClient([pv.inst EXCEPT ![i] = q], i, q.connRet.client),
                         !.fds = FdsAfter(pv.fds, i, pv.inst[i], q)]
            /\ TwoUnchanged

TwoNext ==
    \/ TwoConfigure
    \/ TwoOpenKrb5
    \/ TwoOpenKeytab
    \/ TwoConnect
    \/ TwoConnected

SpecTwo == TwoInit /\ [][TwoNext]_vars

(***************************************************************************)
(* Properties                                                              *)
(***************************************************************************)
IsFieldDiag(d) == d.attr # ""

\* the missing-field violations among the diagnostics
Violations(ds) == SelectSeq(ds, IsFieldDiag)

\* a Configure call that has resolved its configuration
Resolved == api = "provider" /\ exit # "get"

Count(b) == IF b THEN 1 ELSE 0

\* C1: validation never stops at the first violation: for every resolved
\* configuration each unmet applicable rule has its violation among the
\* diagnostics, whatever other rules are unmet, and only unmet applicable
\* rules have one; so there is no violation exactly when all of them pass,
\* and Configure returns from validation exactly when there is one.
C1_AllViolationsCollected ==
    Resolved =>
        LET has(d) == d \in Range(diags)
            k == cfg.kerberosEnabled
        IN  /\ has(DiagHost) <=> cfg.host = ""
            /\ has(DiagPrincipal) <=> (k /\ cfg.kerberosPrincipal = "")
            /\ has(DiagRealm) <=> (k /\ cfg.kerberosRealm = "")
            /\ has(DiagKeytabInfo) <=> (k /\ cfg.keytabBase64 = <<>> /\ cfg.keytabPath = "")
            /\ has(DiagKeytabPath) <=> (k /\ cfg.keytabPath = "")
            /\ has(DiagUsername) <=> (~k /\ cfg.username = "")
            /\ has(DiagPassword) <=> (~k /\ cfg.password = "")
            /\ Len(Violations(diags)) =
                   Count(cfg.host = "")
                   + Count(k /\ cfg.kerberosPrincipal = "") + Count(k /\ cfg.kerberosRealm = "")
                   + Count(k /\ cfg.keytabBase64 = <<>> /\ cfg.keytabPath = "")
                   + Count(k /\ cfg.keytabPath = "")
                   + Count(~k /\ cfg.username = "") + Count(~k /\ cfg.password = "")
            /\ (exit = "validate") <=> (Violations(diags) # <<>>)

\* C1 witness: a call returned with violations of several rules at once
C1_Witness ==
    /\ api = "provider" /\ exit = "validate"
    /\ {DiagHost, DiagPrincipal, DiagRealm} \subseteq Range(diags)

\* the case of C2: kerberos mode, a host, and neither principal, realm,
\* keytab path nor keytab base64
C2_Case ==
    /\ Resolved /\ cfg.kerberosEnabled /\ cfg.host # ""
    /\ cfg.kerberosPrincipal = "" /\ cfg.kerberosRealm = ""
    /\ cfg.keytabPath = "" /\ cfg.keytabBase64 = <<>>

\* C2 as stated: in that case validation yields exactly three violations,
\* one for principal, one for realm and one for keytab presence.
C2_ExactlyThree ==
    C2_Case => /\ Len(diags) = 3
               /\ Range(diags) = {DiagPrincipal, DiagRealm, DiagKeytabInfo}

\* C2 as amended: in that case validation yields exactly four violations:
\* keytab presence, principal, realm and keytab path, in that order.
C2_ExactlyFour ==
    C2_Case => diags = <<DiagKeytabInfo, DiagPrincipal, DiagRealm, DiagKeytabPath>>

\* C2 witness: a call returned from validation in that case
C2_Witness == C2_Case /\ exit = "validate" /\ pc = "returned"

\* C3: in password mode with a host, the number of violations is the number
\* of empty fields among username and password; a set username with an
\* empty password yields exactly the password violation, whatever the
\* kerberos and keytab fields hold.
C3_PasswordMode ==
    (Resolved /\ ~cfg.kerberosEnabled /\ cfg.host # "") =>
        /\ Len(Violations(diags)) = Count(cfg.username = "") + Count(cfg.password = "")
        /\ (cfg.username # "" /\ cfg.password = "") => Violations(diags) = <<DiagPassword>>

\* C3 witness: only the password is missing, while the kerberos fields are
\* empty and the keytab fields hold an empty path and undecodable base64
C3_Witness ==
    /\ Resolved /\ ~cfg.kerberosEnabled /\ cfg.host # ""
    /\ cfg.username # "" /\ cfg.password = "" /\ exit = "validate"
    /\ cfg.kerberosPrincipal = "" /\ cfg.keytabPath = "" /\ cfg.keytabBase64 = InvalidB64
    /\ diags = <<DiagPassword>>

\* C4: a Configure call whose validation yields a violation does no I/O: it
\* opens no file, decodes no base64 and never calls the Directory Client.
C4_NoIoAfterViolation ==
    (api = "provider" /\ Violations(diags) # <<>>) =>
        /\ io = <<>>
        /\ streams = NoStreams
        /\ ~connRet.returned
        /\ pc = "returned"

\* C4 witness: a kerberos call with a keytab to decode returned from
\* validation
C4_Witness ==
    /\ api = "provider" /\ exit = "validate" /\ pc = "returned"
    /\ cfg.kerberosEnabled /\ cfg.keytabBase64 # <<>> /\ cfg.host = ""

\* what precedence gives a string field: the explicit value when set, else
\* the environment's when it has one, else the default
Preferred(attr, fromEnv, default) ==
    IF ~attr.null THEN attr.val
    ELSE IF fromEnv # "" THEN fromEnv
    ELSE default

\* C5: each of host, username, password, kerberos-enabled, principal, realm,
\* krb5-config path, keytab path and keytab base64 resolves to the explicit
\* value when the attribute is set (whatever the environment holds), else to
\* the environment variable's value (for kerberos-enabled: whether it is the
\* text "true"), else to the default; and a configuration given only through
\* the environment resolves as the same values given explicitly.
C5_Precedence ==
    rs.done =>
        LET c == rs.config
            e == rs.env
            o == rs.out
        IN  /\ o.host = Preferred(c.Host, e["FREEIPA_HOST"], "")
            /\ o.username = Preferred(c.Username, e["FREEIPA_USERNAME"], "")
            /\ o.password = Preferred(c.Password, e["FREEIPA_PASSWORD"], "")
            /\ o.kerberosEnabled =
                   IF ~c.KerberosEnabled.null THEN c.KerberosEnabled.val
                   ELSE e["FREEIPA_KERBEROS_ENABLED"] = "true"
            /\ o.kerberosPrincipal =
                   Preferred(c.KerberosPrincipal, e["FREEIPA_KERBEROS_PRINCIPAL"], "")
            /\ o.kerberosRealm = Preferred(c.KerberosRealm, e["FREEIPA_KERBEROS_REALM"], "")
            /\ o.krb5ConfPath =
                   Preferred(c.Krb5ConfPath, e["FREEIPA_KRB5_CONF"], "/etc/krb5.conf")
            /\ o.keytabPath = Preferred(c.KeytabPath, e["FREEIPA_KEYTAB"], "/etc/krb5.keytab")
            /\ o.keytabBase64 =
                   IF ~c.KeytabBase64.null THEN c.KeytabBase64.val
                   ELSE e["FREEIPA_KEYTAB_BASE64"]
            /\ (c = AllNull) => (o = rs.asExplicit)

\* C5 witness: host set explicitly to "ipa1" while the environment says
\* "ipa2", the password left to the environment
C5_Witness ==
    /\ rs.done
    /\ rs.config.Host = Set("ipa1") /\ rs.env["FREEIPA_HOST"] = "ipa2"
    /\ rs.out.host = "ipa1"
    /\ rs.config.Password.null /\ rs.out.password = "pw2"

\* a call that has been through keytab materialization
Materialized ==
    /\ api # "" /\ cfg.kerberosEnabled
    /\ pc \in {"connect", "in_connect"} \/ exit \in {"keytab", "connect", "ok"}

\* C6: whenever the keytab base64 text is not empty, materialization decodes
\* it and never tries to open the keytab path, whatever the path is, also
\* when the text does not decode.
C6_Base64NeverOpensPath ==
    (api # "" /\ cfg.keytabBase64 # <<>>) =>
        /\ \A i \in 1..Len(io) : ~(io[i].op = "open" /\ io[i].what = "keytab")
        /\ streams.keytab.kind # "file"
        /\ Materialized => IoOp("decode", "keytab", "") \in Range(io)

\* C6 witness: Configure materialized the keytab from base64 while a
\* non-default keytab path was set
C6_Witness ==
    /\ api = "provider" /\ pc = "connect"
    /\ cfg.keytabBase64 = ValidB64 /\ cfg.keytabPath = CustomKeytab
    /\ streams.keytab.kind = "mem"

\* C7 as stated: any two base64 texts that are equal once all whitespace is
\* removed materialize to the same outcome (the drawn text, its copy with
\* whitespace inserted, and the drawn text followed by a newline).
C7_WhitespaceInsensitive ==
    kt.done => (kt.outBase = kt.outText /\ kt.outBase = kt.outLine)

\* C7 as amended: any two non-empty base64 texts that are equal once all
\* whitespace is removed materialize to the same outcome.  (The empty text is
\* not decoded at all: it selects the keytab path, while a text of
\* whitespace only decodes to an empty keytab.)
C7_WhitespaceInsensitiveNonEmpty ==
    kt.done =>
        /\ (kt.base # <<>> /\ kt.text # <<>>) => kt.outBase = kt.outText
        /\ kt.base # <<>> => kt.outBase = kt.outLine
        /\ kt.text # <<>> => kt.outText = kt.outLine

\* C7 witness: a text with whitespace inside it decoded to the bytes of the
\* text without it
C7_Witness ==
    /\ kt.done /\ kt.text # kt.base
    /\ ~IsWhitespace(kt.text[1]) /\ ~IsWhitespace(kt.text[Len(kt.text)])
    /\ kt.outText.kind = "mem" /\ kt.outText.bytes = <<65, 4, 16>>
    /\ kt.outBase.bytes = <<65, 4, 16>>

StreamNames == {"krb5", "keytab"}

\* C8: every stream a kerberos-mode attempt opens is closed exactly once by
\* the time the attempt returns, on every exit path (keytab failure after the
\* krb5 file was opened, connect failure, connect success), none is closed
\* before the connect call returns, and no stream is open between attempts.
C8_StreamsClosedOnce ==
    /\ \A n \in StreamNames :
          /\ streams[n].opens <= 1
          /\ streams[n].closes <= streams[n].opens
          /\ pc = "returned" => streams[n].closes = streams[n].opens
          /\ pc \in {"open_krb5", "open_keytab", "connect", "in_connect"}
                => streams[n].closes = 0
    /\ pc = "returned" => defers = <<>>
    /\ pc = "idle" => streams = NoStreams
    /\ (pc = "in_connect" /\ cfg.kerberosEnabled) =>
          IsOpen(streams.krb5) /\ IsOpen(streams.keytab)
    /\ (cfg.kerberosEnabled /\ exit \in {"keytab", "connect", "ok"}) =>
          streams.krb5.opens = 1 /\ streams.krb5.closes = 1
    /\ (cfg.kerberosEnabled /\ exit \in {"connect", "ok"}) =>
          streams.keytab.opens = 1 /\ streams.keytab.closes = 1

\* C8 witness: a repeated attempt failed at the keytab after the krb5 file
\* had been opened
C8_Witness ==
    /\ calls >= 1 /\ pc = "returned" /\ exit = "keytab"
    /\ streams.krb5.opens = 1 /\ streams.krb5.closes = 1

\* C9: Client() yields a handle only as the result of a Configure that
\* completed successfully: none before the first call, none after a
\* Configure that ended in a validation, krb5 file, keytab or connect error,
\* and after a Configure that ended without error the handle the connect
\* operation returned.
C9_HandleOnlyAfterSuccess ==
    /\ calls = 0 /\ pc = "idle" => Client = Nil
    /\ (pc = "returned" /\ api = "provider"
            /\ exit \in {"validate", "krb5", "keytab", "connect"}) => Client = Nil
    /\ (pc = "returned" /\ api = "provider" /\ exit = "ok") =>
            Client # Nil /\ Client = connRet.client

Secrets == {"", "pw1", "pw2"}
SecretTexts == {<<>>, ValidB64, InvalidB64}

\* the event the entry point that ran emits for configuration c
EventOf(c) == IF api = "provider" THEN ProviderLogEvent(c) ELSE ConfigLogEvent(c)

\* C10: an event is emitted only by a run that connected, it records the
\* host, the mode and, in password mode, the username, and it is the same
\* for any other password and keytab base64 text; a failed run emits none.
C10_EventOnlyOnSuccessNoSecrets ==
    /\ events # <<>> =>
          /\ Len(events) = 1 /\ pc = "returned"
          /\ connRet.returned /\ ~connRet.err /\ connRet.client # Nil
          /\ events[1].fields.host = cfg.host
          /\ api = "provider" =>
                /\ events[1].fields.kerberos_enabled = cfg.kerberosEnabled
                /\ ~cfg.kerberosEnabled => events[1].fields.username = cfg.username
          /\ \A pw \in Secrets, b \in SecretTexts :
                EventOf([cfg EXCEPT !.password = pw, !.keytabBase64 = b]) = events[1]
    /\ (pc = "returned" /\ (~connRet.returned \/ connRet.err)) => events = <<>>

\* the flag the documented FREEIPA_INSECURE variable stands for
InsecureFromEnv(env) == env["FREEIPA_INSECURE"] = "true"

\* C11: when insecure is not set explicitly the resolved skip-verification
\* flag is taken from the environment variable FREEIPA_INSECURE, and is
\* false when the variable is absent; the transport skips certificate
\* verification exactly when the resolved flag is true.
C11_InsecureFromEnvironment ==
    rs.done =>
        /\ rs.out.insecureSkipVerify =
               IF ~rs.config.InsecureSkipVerify.null
               THEN rs.config.InsecureSkipVerify.val
               ELSE InsecureFromEnv(rs.env)
        /\ rs.tspt.built =>
               rs.tspt.insecureSkipVerify = rs.out.insecureSkipVerify

\* the Configure call of instance i run from start to end with nothing else
\* running: the block, the environment, what the files and the connect did
Alone(i, config, env, in) ==
    LET s1 == PConfigure(PIdle, config, env)
        s2 == IF s1.pc = "open_krb5" THEN POpenKrb5(s1, in.krb5, FreshFd({})) ELSE s1
        s3 == IF s2.pc = "open_keytab"
              THEN POpenKeytab(s2, in.keytab, FreshFd({[fd |-> s2.streams.krb5.fd, owner |-> i]}))
              ELSE s2
        s4 == IF s3.pc = "connect" THEN PConnect(s3) ELSE s3
        s5 == IF s4.pc = "in_connect" THEN PConnected(s4, in.connect, i) ELSE s4
    IN  [s5 EXCEPT !.client = s5.connRet.client]

\* the open file descriptors instance i holds
HeldFds(i) ==
    {pv.inst[i].streams[n].fd :
        n \in {n \in StreamNames : pv.inst[i].streams[n].kind = "file"
                                   /\ IsOpen(pv.inst[i].streams[n])}}

OpensCloses(ss) == [n \in StreamNames |-> <<ss[n].kind, ss[n].opens, ss[n].closes>>]

\* C12: two Configure calls on two Provider instances, their steps
\* interleaved in any order, share no mutable state: each call ends with the
\* diagnostics, the client handle, the event, the file operations and the
\* opens and closes it has when run alone; the descriptors open in the
\* process are exactly those the running calls hold, each held by one call
\* and closed by that call by the time it returns; and an instance's
\* Client() is nil until its own call has connected, whatever the other
\* instance's call does.
C12_InstancesIndependent ==
    /\ \A i \in Insts :
          LET p == pv.inst[i] IN
          /\ p.pc = "returned" =>
                LET a == Alone(i, p.config, pv.env, p.in) IN
                /\ a.pc = "returned"
                /\ p.diags = a.diags /\ p.client = a.client /\ p.exit = a.exit
                /\ p.events = a.events /\ p.io = a.io /\ p.tspt = a.tspt
                /\ OpensCloses(p.streams) = OpensCloses(a.streams)
                /\ HeldFds(i) = {}
          /\ p.pc # "returned" => p.client = Nil
          /\ p.client \in {Nil, i}
          /\ \A n \in StreamNames : p.streams[n].closes <= p.streams[n].opens
    /\ pv.fds = UNION {{[fd |-> f, owner |-> i] : f \in HeldFds(i)} : i \in Insts}
    /\ \A i, j \in Insts : i # j => HeldFds(i) \cap HeldFds(j) = {}

\* C12 witness: instance 2 opened its krb5.conf first and is still inside
\* its connect, holding both its files, while instance 1, which opened its
\* files after that, has connected and returned with its own handle
C12_Witness ==
    /\ pv.inst[2].pc = "in_connect"
    /\ pv.inst[2].streams.krb5.fd = 3 /\ IsOpen(pv.inst[2].streams.krb5)
    /\ pv.inst[2].streams.keytab.kind = "file" /\ IsOpen(pv.inst[2].streams.keytab)
    /\ pv.inst[1].pc = "returned" /\ pv.inst[1].exit = "ok"
    /\ pv.inst[1].client = 1 /\ pv.inst[2].client = Nil
    /\ pv.inst[1].streams.krb5.fd > 3 /\ pv.inst[1].streams.krb5.closes = 1
    /\ pv.inst[1].config # pv.inst[2].config

Times(ds, d) == Cardinality({i \in 1..Len(ds) : ds[i] = d})

\* C14: in kerberos mode the validator requires a non-empty keytabPath on
\* its own, besides requiring one of keytabPath and keytabBase64: a
\* configuration with an empty keytabPath is rejected with the keytab-path
\* violation also when keytabBase64 is not empty, and its call returns from
\* validation without a transport, a file operation or a connect; when both
\* keytab fields are empty the keytab-presence violation is added as well,
\* each once; with a keytabPath neither violation is added.
C14_KeytabPathRequired ==
    (Resolved /\ cfg.kerberosEnabled) =>
        /\ Times(diags, DiagKeytabPath) = Count(cfg.keytabPath = "")
        /\ Times(diags, DiagKeytabInfo) =
               Count(cfg.keytabPath = "" /\ cfg.keytabBase64 = <<>>)
        /\ cfg.keytabPath = "" =>
               /\ pc = "returned" /\ exit = "validate"
               /\ io = <<>> /\ ~tspt.built /\ ~connRet.returned
               /\ streams = NoStreams /\ events = <<>>

\* C14 witness: a kerberos configuration complete but for the keytab path,
\* with base64 text that decodes, was rejected for the keytab path alone
C14_Witness ==
    /\ Resolved /\ cfg.kerberosEnabled /\ pc = "returned" /\ exit = "validate"
    /\ cfg.keytabPath = "" /\ cfg.keytabBase64 = ValidB64
    /\ diags = <<DiagKeytabPath>>

\* the step an operation of a call belongs to
StepOf(o) ==
    IF o.op = "connect" THEN "connect"
    ELSE IF o.what = "krb5" THEN "krb5" ELSE "keytab"

KerberosSteps == <<"krb5", "keytab", "connect">>

\* C15: after validation passed in kerberos mode the steps of a Configure
\* call run in the order open krb5 configuration, materialize keytab,
\* Kerberos connect, each at most once; the first step that fails ends the
\* call with exactly one error diagnostic and no later step runs: after a
\* krb5 open failure the keytab is neither opened nor decoded, after a keytab
\* failure the connect is not invoked.
C15_StepsInOrderNoRetry ==
    (api = "provider" /\ Resolved /\ cfg.kerberosEnabled /\ Validate(cfg) = <<>>) =>
        /\ Len(io) <= Len(KerberosSteps)
        /\ \A k \in 1..Len(io) : StepOf(io[k]) = KerberosSteps[k]
        /\ Len(io) = Len(KerberosSteps) => io[Len(io)].what = "kerberos"
        /\ pc = "open_krb5" => io = <<>> /\ diags = <<>>
        /\ pc = "open_keytab" => Len(io) = 1 /\ diags = <<>>
        /\ pc = "connect" => Len(io) = 2 /\ diags = <<>>
        /\ pc = "in_connect" => Len(io) = 3 /\ diags = <<>>
        /\ pc = "returned" =>
              /\ exit \in {"krb5", "keytab", "connect", "ok"}
              /\ exit = "krb5" =>
                    /\ Len(io) = 1 /\ ~connRet.returned
                    /\ diags = <<Diag("", "Failed to open krb5.conf")>>
                    /\ streams.keytab = NoStream
              /\ exit = "keytab" =>
                    /\ Len(io) = 2 /\ ~connRet.returned
                    /\ diags = <<Diag("", "Failed to load keytab")>>
              /\ exit = "connect" =>
                    /\ Len(io) = 3 /\ connRet.returned /\ connRet.err
                    /\ diags = <<Diag("", "Failed to connect to FreeIPA")>>
              /\ exit = "ok" =>
                    /\ Len(io) = 3 /\ connRet.returned /\ ~connRet.err
                    /\ diags = <<>>

\* C15 witness: a kerberos call opened krb5.conf, failed to decode the
\* keytab text, and returned with that one diagnostic, the connect not
\* invoked
C15_Witness ==
    /\ api = "provider" /\ pc = "returned" /\ exit = "keytab"
    /\ cfg.keytabBase64 = InvalidB64
    /\ io = <<IoOp("open", "krb5", cfg.krb5ConfPath), IoOp("decode", "keytab", "")>>
    /\ diags = <<Diag("", "Failed to load keytab")>>
    /\ ~connRet.returned

KeytabPathValues == {"", DefaultKeytab, CustomKeytab}

\* C16: one authentication mode is active per call and kerberosEnabled alone
\* selects it: a call invokes at most one connect operation, the Kerberos
\* connect only when kerberosEnabled is true and the password connect only
\* when it is false; when it is false no krb5 or keytab file is opened, no
\* keytab text is decoded, and the keytab path and base64 text (also text
\* that does not decode) change neither the diagnostics nor the outcome.
C16_OneModeByKerberosEnabled ==
    api # "" =>
        /\ Cardinality({k \in 1..Len(io) : io[k].op = "connect"}) <= 1
        /\ \A k \in 1..Len(io) :
              io[k].op = "connect" =>
                  io[k].what = IF cfg.kerberosEnabled THEN "kerberos" ELSE "password"
        /\ pc = "in_connect" => io # <<>> /\ io[Len(io)].op = "connect"
        /\ ~cfg.kerberosEnabled =>
              /\ \A k \in 1..Len(io) : io[k].op = "connect"
              /\ streams = NoStreams /\ defers = <<>>
              /\ pc \notin {"open_krb5", "open_keytab"}
              /\ exit \in {"", "get", "validate", "connect", "ok"}
              /\ api = "provider" /\ exit # "get" =>
                    \A path \in KeytabPathValues, b \in SecretTexts :
                        LET other == [cfg EXCEPT !.keytabPath = path, !.keytabBase64 = b]
                        IN  /\ Validate(other) = Violations(diags)
                            /\ events # <<>> => events = <<ProviderLogEvent(other)>>
              /\ api = "provider" /\ pc = "returned" /\ exit # "get" =>
                    /\ exit = "validate" <=> (cfg.host = "" \/ cfg.username = "" \/ cfg.password = "")
                    /\ exit = "ok" <=> (connRet.returned /\ ~connRet.err)
              /\ api = "config" /\ pc = "returned" =>
                    /\ exit \in {"connect", "ok"}
                    /\ ret.err = IF connRet.err THEN "connect" ELSE ""
                    /\ ret.client = connRet.client

\* C16 witness: a password-mode Configure with an empty keytab path and
\* keytab text that does not decode connected with the password connect and
\* nothing else
C16_Witness ==
    /\ api = "provider" /\ pc = "returned" /\ exit = "ok"
    /\ ~cfg.kerberosEnabled
    /\ cfg.keytabPath = "" /\ cfg.keytabBase64 = InvalidB64
    /\ io = <<IoOp("connect", "password", cfg.host)>>
    /\ diags = <<>>

\* the attribute is set, to the empty string
ExplicitlyEmpty(attr) == ~attr.null /\ attr.val = ""

\* C17: the resolved krb5ConfPath and keytabPath are empty only when the
\* attribute is explicitly set to the empty string: with the attribute unset,
\* an environment variable that is unset or empty gives the built-in default
\* (/etc/krb5.conf, /etc/krb5.keytab), while an explicitly empty attribute
\* is kept as it is; so the keytab-path and keytab-presence violations of
\* kerberos mode come only with an explicitly empty keytab_path.
C17_PathsDefaulted ==
    rs.done =>
        LET c == rs.config
            e == rs.env
            o == rs.out
        IN  /\ (o.krb5ConfPath = "") <=> ExplicitlyEmpty(c.Krb5ConfPath)
            /\ (o.keytabPath = "") <=> ExplicitlyEmpty(c.KeytabPath)
            /\ (c.Krb5ConfPath.null /\ e["FREEIPA_KRB5_CONF"] = "") =>
                   o.krb5ConfPath = "/etc/krb5.conf"
            /\ (c.KeytabPath.null /\ e["FREEIPA_KEYTAB"] = "") =>
                   o.keytabPath = "/etc/krb5.keytab"
            /\ (c.Krb5ConfPath.null /\ e["FREEIPA_KRB5_CONF"] # "") =>
                   o.krb5ConfPath = e["FREEIPA_KRB5_CONF"]
            /\ (c.KeytabPath.null /\ e["FREEIPA_KEYTAB"] # "") =>
                   o.keytabPath = e["FREEIPA_KEYTAB"]
            /\ (DiagKeytabPath \in Range(rs.diags) \/ DiagKeytabInfo \in Range(rs.diags)) =>
                   ExplicitlyEmpty(c.KeytabPath) /\ o.kerberosEnabled

\* C17 witness: keytab_path explicitly empty stays empty although the
\* environment names a keytab, and brings the keytab-path violation, while
\* the unset krb5_conf_path of the same block takes its default
C17_Witness ==
    /\ rs.done
    /\ ExplicitlyEmpty(rs.config.KeytabPath) /\ rs.env["FREEIPA_KEYTAB"] # ""
    /\ rs.out.keytabPath = ""
    /\ rs.config.Krb5ConfPath.null /\ rs.env["FREEIPA_KRB5_CONF"] = ""
    /\ rs.out.krb5ConfPath = DefaultKrb5Conf
    /\ DiagKeytabPath \in Range(rs.diags)

====
